---- MODULE Spec2Model ----
(***************************************************************************)
(* Reel downloader client: the download orchestrator (HomeScreen), the     *)
(* remote API client (constants/api.ts) and the session store              *)
(* (contexts/session-context.tsx) as one state machine.                    *)
(*                                                                         *)
(* Texts are sequences of tokens (a token is an atomic substring), so that *)
(* trim() and INSTAGRAM_URL_REGEX are computed position by position.       *)
(***************************************************************************)
EXTENDS Naturals, Sequences, FiniteSets, TLC

VARIABLES
    \* ---- HomeScreen (useState)
    url,            \* input text
    status,         \* AppStatus
    reelInfo,       \* ReelInfo | null
    errorMessage,   \* string
    serverOnline,   \* boolean | null  ("null", "true", "false")
    is403,          \* boolean
    \* ---- HomeScreen async flows
    fetchPc,        \* handleFetchInfo: "idle" | "awaiting"
    dlPc,           \* handleDownload: "idle" | "perm" | "native" | "proxy" | "save"
    dlCtx,          \* what the running handleDownload closure captured
    dlLog,          \* device/API calls and their outcomes in the current attempt
    pastePc,        \* handlePaste: "idle" | "reading"
    healthPc,       \* startup effect: "pending" | "done"
    \* ---- API client: the call in progress / last made
    apiCall,        \* operation and arguments the caller passed
    request,        \* the HTTP request put on the wire
    response,       \* the transport's answer to it
    apiResult,      \* what the call settled with (value or thrown error)
    \* ---- session store
    session,        \* SessionState {cookies, username}
    sessionLoading, \* isLoading of SessionProvider
    secureStore,    \* SecureStore item under STORAGE_KEY
    storeOps,       \* SecureStore writes called and not yet settled, oldest first
    storeSettled,   \* how the last settled write ended: "none" | "resolved" | "rejected"
    alert,          \* the last Alert.alert shown by the session screen
    \* ---- history store
    history,        \* DownloadRecord[] of HistoryProvider, newest first
    historyLoading, \* isLoading of HistoryProvider
    asyncStore,     \* AsyncStorage item under STORAGE_KEY
    now,            \* Date.now()
    callNo,         \* store calls made so far; the next Math.random() draw
    rendered,       \* the history value the current addRecord/removeRecord callbacks closed over
    historyOps      \* AsyncStorage writes called and not yet settled, oldest first

vars == <<url, status, reelInfo, errorMessage, serverOnline, is403,
          fetchPc, dlPc, dlCtx, dlLog, pastePc, healthPc,
          apiCall, request, response, apiResult,
          session, sessionLoading, secureStore, storeOps, storeSettled, alert,
          history, historyLoading, asyncStore, now, callNo, rendered, historyOps>>

homeVars == <<url, status, reelInfo, errorMessage, serverOnline, is403,
              fetchPc, dlPc, dlCtx, dlLog, pastePc, healthPc>>
apiVars == <<apiCall, request, response, apiResult>>
sessionVars == <<session, sessionLoading, secureStore, storeOps, storeSettled, alert>>
historyVars == <<history, historyLoading, asyncStore, now, callNo, rendered, historyOps>>
storageVars == <<sessionVars, historyVars>>

\* --------------------------------------------------------------- bounds
\* Number of distinct contents the backend may serve for one URL.
MaxVer == 2

\* --------------------------------------------------------------- values
Null == [type |-> "null"]
Undefined == [type |-> "undefined"]
None == [type |-> "none"]

\* ------------------------------------------------------------ API client
MsgUnreachable == "No se pudo conectar al servidor. Verifica que este encendido y en la misma red."
MsgUnknown == "Error desconocido."
Msg422 == "URL no valida. Asegurate de que sea un enlace de Instagram Reel."
Msg403 == "Este Reel es privado o requiere inicio de sesion."
Msg404 == "Reel no encontrado. Verifica el enlace e intenta de nuevo."
Msg500 == "Error en el servidor. Intenta de nuevo mas tarde."

\* getErrorMessage without its 404 case
GetErrorMessage_No404(st, fallback) ==
    CASE st = 422 -> Msg422
      [] st = 403 -> Msg403
      [] st = 500 -> Msg500
      [] OTHER -> fallback

GetErrorMessage(st, fallback) ==
    CASE st = 422 -> Msg422
      [] st = 403 -> Msg403
      [] st = 404 -> Msg404
      [] st = 500 -> Msg500
      [] OTHER -> fallback

\* new ApiError(status, detail)
ApiError(st, detail) ==
    [type |-> "throw", name |-> "ApiError", status |-> st, message |-> detail]
\* any error that is not an ApiError (SyntaxError of json(), TypeError of blob())
PlainError(nm, msg) == [type |-> "throw", name |-> nm, message |-> msg]
Return(v) == [type |-> "return", value |-> v]

\* Response.ok
Ok(resp) == resp.status >= 200 /\ resp.status <= 299

\* fetchWithTimeout: the promise rejects when the network fails or when the
\* timer aborts the request before the response (its headers) arrived.
Rejected(resp) == resp.kind \in {"netfail", "timeout"}

\* response.json(): throws when the body is not JSON.
JsonThrows(resp) == resp.body.type = "notjson"

\* the non-2xx branch shared by fetchReelInfo and downloadReelBinary
ErrorOf(resp) ==
    LET detail == IF JsonThrows(resp) THEN MsgUnknown ELSE resp.body.value.detail
    IN  ApiError(resp.status, GetErrorMessage(resp.status, detail))

\* The request fetchReelInfo(url) builds.  The function declares one
\* parameter: a second argument given by a caller is not read.
InfoRequest(u, cookies) ==
    [path |-> "/info", method |-> "POST", headers |-> {"Content-Type"},
     body |-> [url |-> u]]

FetchReelInfo(resp) ==
    IF Rejected(resp) THEN ApiError(0, MsgUnreachable)
    ELSE IF ~Ok(resp) THEN ErrorOf(resp)
    ELSE IF JsonThrows(resp) THEN PlainError("SyntaxError", "JSON Parse error")
    ELSE Return(resp.body.value)

\* downloadReelBinary(url) likewise declares the url alone.
DownloadRequest(u, cookies) ==
    [path |-> "/download", method |-> "POST", headers |-> {"Content-Type"},
     body |-> [url |-> u]]

\* disposition?.match(/filename="?(.+?)"?$/)?.[1] || `reel_${Date.now()}.mp4`
FilenameOf(resp) ==
    IF resp.disposition.type = "filename" THEN resp.disposition.name
    ELSE "reel_now.mp4"

DownloadReelBinary(resp) ==
    IF Rejected(resp) THEN ApiError(0, MsgUnreachable)
    ELSE IF ~Ok(resp) THEN ErrorOf(resp)
    ELSE IF resp.body.type = "unreadable"
         THEN PlainError("TypeError", "Network request failed")
    ELSE Return([blob |-> resp.body.value, filename |-> FilenameOf(resp)])

\* the body of checkServerHealth's try block
HealthTry(resp) ==
    IF Rejected(resp) THEN PlainError("TypeError", "Network request failed")
    ELSE IF ~Ok(resp) THEN Return(FALSE)
    ELSE IF JsonThrows(resp) THEN PlainError("SyntaxError", "JSON Parse error")
    ELSE IF resp.body.value = Null
         THEN PlainError("TypeError", "null is not an object")
    ELSE Return(resp.body.value.status = "ok")

\* checkServerHealth without its catch
CheckServerHealth_NoCatch(resp) == HealthTry(resp)

CheckServerHealth(resp) ==
    LET r == HealthTry(resp)
    IN  IF r.type = "throw" THEN Return(FALSE) ELSE r

\* ------------------------------------------------- what the backend may answer
HttpStatuses == {200, 204, 400, 403, 404, 422, 500, 503}
Details == {"Rate limit exceeded."}
NotJson == [type |-> "notjson"]
Json(v) == [type |-> "json", value |-> v]

TransportFailures == {[kind |-> "netfail"], [kind |-> "timeout"]}

\* ApiErrorResponse: {detail: string}, or a body that is no JSON at all
ErrorBodies == {NotJson} \cup {Json([detail |-> d]) : d \in Details}

\* ReelInfo as served for the url u: src and ver stand for its five fields
\* (title, thumbnail, duration, video_url, uploader), which the backend
\* derives from the url asked for and the content it finds there.
ReelInfoOf(u, v) == [type |-> "info", src |-> u, ver |-> v]

InfoResponses(req) ==
    TransportFailures
    \cup {[kind |-> "http", status |-> st, body |-> b] :
            st \in {s \in HttpStatuses : s < 200 \/ s > 299}, b \in ErrorBodies}
    \cup {[kind |-> "http", status |-> 200, body |-> b] :
            b \in {NotJson} \cup {Json(ReelInfoOf(req.body.url, v)) : v \in 1..MaxVer}}

Dispositions == {[type |-> "absent"], [type |-> "filename", name |-> "reel.mp4"]}

DownloadResponses(req) ==
    TransportFailures
    \cup {[kind |-> "http", status |-> st, body |-> b, disposition |-> [type |-> "absent"]] :
            st \in {s \in HttpStatuses : s < 200 \/ s > 299}, b \in ErrorBodies}
    \cup {[kind |-> "http", status |-> 200, body |-> b, disposition |-> d] :
            b \in {[type |-> "unreadable"], [type |-> "bytes", value |-> req.body.url]},
            d \in Dispositions}

HealthResponses ==
    TransportFailures
    \cup {[kind |-> "http", status |-> st, body |-> b] :
            st \in {200, 204, 404, 500},
            b \in {NotJson, Json(Null), Json([status |-> "ok"]),
                   Json([status |-> "starting"])}}

\* ------------------------------------------------------------------ texts
Whitespace == {" ", "\n", "\t"}

\* String.prototype.trim
RECURSIVE TrimLeft(_)
TrimLeft(t) ==
    IF t # <<>> /\ Head(t) \in Whitespace THEN TrimLeft(Tail(t)) ELSE t

RECURSIVE TrimRight(_)
TrimRight(t) ==
    IF t # <<>> /\ t[Len(t)] \in Whitespace
    THEN TrimRight(SubSeq(t, 1, Len(t) - 1)) ELSE t

Trim(t) == TrimRight(TrimLeft(t))

\* INSTAGRAM_URL_REGEX = /^https?:\/\/(www\.)?instagram\.com\/(reel|reels|p)\/[\w-]+/
\* matched token by token; the pattern is anchored at the start only.
IdTokens == {"ABC123", "XyZ_9-"}
InstagramUrlRegexTest(t) ==
    LET afterScheme == IF t # <<>> /\ Head(t) \in {"http://", "https://"}
                       THEN Tail(t) ELSE <<"nomatch">>
        afterWww == IF afterScheme # <<>> /\ Head(afterScheme) = "www."
                    THEN Tail(afterScheme) ELSE afterScheme
    IN  /\ Len(afterWww) >= 3
        /\ afterWww[1] = "instagram.com"
        /\ afterWww[2] \in {"/reel/", "/reels/", "/p/"}
        /\ afterWww[3] \in IdTokens

ReelA == <<"https://", "www.", "instagram.com", "/reel/", "ABC123">>
ReelB == <<"http://", "instagram.com", "/p/", "XyZ_9-">>

\* what the user may type, or hold in the clipboard
Texts ==
    { <<>>,
      <<" ">>,
      ReelA,
      <<" ">> \o ReelA \o <<" ">>,
      ReelB,
      <<"https://", "www.", "instagram.com", "/tv/", "ABC123">> }

\* ---------------------------------------------------------- session store
Str(v) == [type |-> "string", value |-> v]

\* a cookie as the import and the login flow build it
Cookie(n, v) ==
    [name |-> n, value |-> v, domain |-> <<".", "instagram.com">>, path |-> "/",
     secure |-> TRUE, httpOnly |-> (n = "sessionid")]

\* cookie lists: the second as a Netscape import without domain and path gives it
CookieLists ==
    { <<>>,
      <<Cookie("sessionid", "X")>>,
      <<Cookie("sessionid", "")>>,
      <<Cookie("sessionid", "ABC123"),
        [name |-> "ds_user_id", value |-> "42", domain |-> <<>>, path |-> "",
         secure |-> FALSE, httpOnly |-> FALSE]>>,
      <<[name |-> "csrftoken", value |-> "t", domain |-> <<"instagram.com">>,
         path |-> "/", secure |-> FALSE, httpOnly |-> FALSE]>> }

\* the login flow and the manual import call saveCookies only with a list that
\* holds a sessionid cookie with a value
HasSessionCookie(cookies) ==
    \E i \in 1..Len(cookies) : cookies[i].name = "sessionid" /\ cookies[i].value # ""

EmptySession == [cookies |-> <<>>, username |-> Null]

\* cookies.find((c) => c.name === "ds_user_id")?.value ?? null
DsUserOf(cookies) ==
    LET idx == {i \in 1..Len(cookies) : cookies[i].name = "ds_user_id"}
    IN  IF idx = {} THEN Null
        ELSE Str(cookies[CHOOSE i \in idx : \A j \in idx : i <= j].value)

\* one Netscape cookie-file line, as its seven tab-separated fields
CookieLine(c) ==
    LET domain == IF c.domain = <<>> THEN <<".", "instagram.com">> ELSE c.domain
        subdomains == IF Head(domain) = "." THEN "TRUE" ELSE "FALSE"
        path == IF c.path = "" THEN "/" ELSE c.path
        secure == IF c.secure THEN "TRUE" ELSE "FALSE"
    IN  <<domain, subdomains, path, secure, "0", c.name, c.value>>

\* cookiesForApi: undefined without cookies, else the lines joined by "\n"
CookiesForApi(cookies) ==
    IF Len(cookies) = 0 THEN Undefined
    ELSE [type |-> "string", lines |-> [i \in 1..Len(cookies) |-> CookieLine(cookies[i])]]

\* the initial load effect of SessionProvider
SessionLoad ==
    /\ sessionLoading
    /\ session' = IF secureStore.type = "json" THEN secureStore.value ELSE session
    /\ sessionLoading' = FALSE
    /\ UNCHANGED <<secureStore, storeOps, storeSettled, alert, homeVars, apiVars, historyVars>>

\* saveCookies without the ds_user_id default of the username
NewSession_NoDsUser(cookies, username) ==
    [cookies |-> cookies,
     username |-> IF username \in {Undefined, Null} THEN Null ELSE username]

\* newSession of saveCookies: username ?? dsUser?.value ?? null
NewSession(cookies, username) ==
    [cookies |-> cookies,
     username |-> IF username \in {Undefined, Null}
                  THEN DsUserOf(cookies) ELSE username]

\* saveCookies(cookies, username), awaited, its write succeeding, as one step
SaveCookies(cookies, username) ==
    /\ storeOps = <<>>
    /\ session' = NewSession(cookies, username)
    /\ secureStore' = Json(NewSession(cookies, username))
    /\ UNCHANGED <<sessionLoading, storeOps, storeSettled, alert, homeVars, apiVars, historyVars>>

\* clearSession(), awaited, its delete succeeding, as one step
ClearSession ==
    /\ storeOps = <<>>
    /\ session' = EmptySession
    /\ secureStore' = [type |-> "absent"]
    /\ UNCHANGED <<sessionLoading, storeOps, storeSettled, alert, homeVars, apiVars, historyVars>>

\* ---- the session store call by call: each mutating call updates the state
\* in memory first and then awaits its SecureStore write
MaxPending == 1

\* isLoggedIn without the test of the value
IsLoggedIn_NameOnly ==
    \E i \in 1..Len(session.cookies) : session.cookies[i].name = "sessionid"

IsLoggedIn ==
    \E i \in 1..Len(session.cookies) :
        session.cookies[i].name = "sessionid" /\ session.cookies[i].value # ""

\* SecureStore.setItemAsync(STORAGE_KEY, JSON.stringify(newSession)) as
\* saveCookies(cookies, username) calls it; caller: who awaits saveCookies
SetItem(cookies, username, caller) ==
    [op |-> "set", cookies |-> cookies, username |-> username,
     value |-> Json(NewSession(cookies, username)), caller |-> caller]

\* SecureStore.deleteItemAsync(STORAGE_KEY) as clearSession calls it
DeleteItem == [op |-> "delete", caller |-> "other"]

\* saveCookies up to its await
SaveCookiesCall(cookies, username, caller) ==
    /\ Len(storeOps) < MaxPending
    /\ session' = NewSession(cookies, username)
    /\ storeOps' = Append(storeOps, SetItem(cookies, username, caller))
    /\ UNCHANGED <<sessionLoading, secureStore, storeSettled, alert, homeVars, apiVars, historyVars>>

\* clearSession up to its await (handleLogout calls it from the alert button)
ClearSessionCall ==
    /\ Len(storeOps) < MaxPending
    /\ session' = EmptySession
    /\ storeOps' = Append(storeOps, DeleteItem)
    /\ UNCHANGED <<sessionLoading, secureStore, storeSettled, alert, homeVars, apiVars, historyVars>>

\* what the session screen shows with Alert.alert
Alert(title, message) == [type |-> "alert", title |-> title, message |-> message]
AlertPasteFirst == Alert("Error", "Pega tus cookies primero.")
AlertUnparsable ==
    Alert("Error", "No se pudieron parsear las cookies. Verifica el formato.")
AlertNoSessionId ==
    Alert("Error", "No se encontro la cookie \"sessionid\". Asegurate de incluirla.")
AlertSaved == Alert("Listo!", "Cookies guardadas correctamente.")
AlertBadFormat == Alert("Error", "Formato de cookies no valido.")

\* the oldest pending SecureStore write settles (writes to the one key are
\* taken to complete in the order they were called); a manual import awaiting
\* it goes on to its success alert or to its catch block
SecureStoreSettle(ok) ==
    /\ storeOps # <<>>
    /\ storeOps' = Tail(storeOps)
    /\ storeSettled' = IF ok THEN "resolved" ELSE "rejected"
    /\ secureStore' = IF ~ok THEN secureStore
                      ELSE IF Head(storeOps).op = "set" THEN Head(storeOps).value
                      ELSE [type |-> "absent"]
    /\ alert' = IF Head(storeOps).caller # "manual" THEN alert
                ELSE IF ok THEN AlertSaved ELSE AlertBadFormat
    /\ UNCHANGED <<session, sessionLoading, homeVars, apiVars, historyVars>>

\* the app is closed and opened again: both providers mount anew, what was
\* persisted stays, writes not yet settled are lost
Restart ==
    /\ session' = EmptySession
    /\ sessionLoading' = TRUE
    /\ storeOps' = <<>>
    /\ storeSettled' = "none"
    /\ alert' = None
    /\ history' = <<>>
    /\ historyLoading' = TRUE
    /\ rendered' = <<>>
    /\ historyOps' = <<>>
    /\ UNCHANGED <<secureStore, asyncStore, now, callNo, homeVars, apiVars>>

\* ---- the manual cookie import of the session screen
\* String.prototype.split(sep) on a text given as its tokens
RECURSIVE Split(_, _)
Split(t, sep) ==
    LET idx == {i \in 1..Len(t) : t[i] = sep}
        first == CHOOSE i \in idx : \A j \in idx : i <= j
    IN  IF idx = {} THEN <<t>>
        ELSE <<SubSeq(t, 1, first - 1)>> \o Split(SubSeq(t, first + 1, Len(t)), sep)

\* the string a run of tokens spells
RECURSIVE Join(_)
Join(t) == IF t = <<>> THEN "" ELSE Head(t) \o Join(Tail(t))

\* String.prototype.indexOf, counted in tokens from 1; 0 when absent
IndexOf(t, tok) ==
    LET idx == {i \in 1..Len(t) : t[i] = tok}
    IN  IF idx = {} THEN 0 ELSE CHOOSE i \in idx : \A j \in idx : i <= j

\* String.prototype.toUpperCase on the words the import texts hold
ToUpperCase(str) == IF str \in {"true", "True"} THEN "TRUE" ELSE str

\* lines kept by filter((l) => l.trim() && !l.startsWith("#"))
IsCookieLine(l) == Trim(l) # <<>> /\ Head(l) # "#"

HasSevenFields(l) == Len(Split(l, "\t")) >= 7

NetscapeCookie(parts) ==
    [name |-> Join(Trim(parts[6])), value |-> Join(Trim(parts[7])),
     domain |-> Trim(parts[1]), path |-> Join(Trim(parts[3])),
     secure |-> (ToUpperCase(Join(Trim(parts[4]))) = "TRUE"),
     httpOnly |-> (Join(Trim(parts[6])) = "sessionid")]

\* the cookies of the Netscape cookie-file lines of the text
NetscapeCookies(text) ==
    LET lines == SelectSeq(SelectSeq(Split(text, "\n"), IsCookieLine), HasSevenFields)
    IN  [i \in 1..Len(lines) |-> NetscapeCookie(Split(lines[i], "\t"))]

\* eqIdx > 0: the pair has an "=" that is not its first character
IsPair(pair) == IndexOf(pair, "=") > 1

PairCookie(pair) ==
    LET eqIdx == IndexOf(pair, "=")
        name == Join(Trim(SubSeq(pair, 1, eqIdx - 1)))
    IN  [name |-> name, value |-> Join(Trim(SubSeq(pair, eqIdx + 1, Len(pair)))),
         domain |-> <<".", "instagram.com">>, path |-> "/",
         secure |-> TRUE, httpOnly |-> (name = "sessionid")]

NonEmpty(t) == t # <<>>

\* the cookies of the "name=value; name=value" pairs of the text
PairCookies(text) ==
    LET split == Split(text, ";")
        trimmed == [i \in 1..Len(split) |-> Trim(split[i])]
        pairs == SelectSeq(SelectSeq(trimmed, NonEmpty), IsPair)
    IN  [i \in 1..Len(pairs) |-> PairCookie(pairs[i])]

\* the cookies handleManualSave reads from the trimmed text
ParseManualCookies(text) ==
    IF NetscapeCookies(text) # <<>> THEN NetscapeCookies(text) ELSE PairCookies(text)

\* an alert and a return
ShowAlert(a) ==
    /\ alert' = a
    /\ UNCHANGED <<session, sessionLoading, secureStore, storeOps, storeSettled,
                   homeVars, apiVars, historyVars>>

\* handleManualSave without the check for the sessionid cookie
HandleManualSave_NoSessionCheck(manualCookies) ==
    LET text == Trim(manualCookies)
        cookies == ParseManualCookies(text)
    IN  IF text = <<>> THEN ShowAlert(AlertPasteFirst)
        ELSE IF cookies = <<>> THEN ShowAlert(AlertUnparsable)
        ELSE SaveCookiesCall(cookies, DsUserOf(cookies), "manual")

\* handleManualSave, up to its await of saveCookies
HandleManualSave(manualCookies) ==
    LET text == Trim(manualCookies)
        cookies == ParseManualCookies(text)
    IN  IF text = <<>> THEN ShowAlert(AlertPasteFirst)
        ELSE IF cookies = <<>> THEN ShowAlert(AlertUnparsable)
        ELSE IF ~HasSessionCookie(cookies) THEN ShowAlert(AlertNoSessionId)
        ELSE SaveCookiesCall(cookies, DsUserOf(cookies), "manual")

\* one Netscape cookie-file line for a cookie of .instagram.com
NetscapeLine(name, value) ==
    <<".", "instagram.com", "\t", "TRUE", "\t", "/", "\t", "TRUE", "\t", "0", "\t",
      name, "\t">> \o value

\* an exported cookie file with a sessionid and a ds_user_id line
ImportNetscape ==
    <<"#", " ", "Netscape", "\n">> \o NetscapeLine("sessionid", <<"ABC123">>)
        \o <<"\n">> \o NetscapeLine("ds_user_id", <<"42">>) \o <<"\n">>

\* a Cookie header value with a sessionid pair
ImportPairs == <<" ", "sessionid", "=", "X", ";", " ", "csrftoken", "=", "t", ";">>

\* what the user may have pasted into the manual input
ManualTexts ==
    { <<>>,
      <<" ", "\n">>,
      <<"#", " ", "Netscape", " ", "HTTP", " ", "Cookie", " ", "File", "\n">>,
      ImportNetscape,
      NetscapeLine("csrftoken", <<"t">>),
      NetscapeLine("sessionid", <<>>) \o <<"\n">> \o NetscapeLine("csrftoken", <<"t">>),
      <<".", "instagram.com", "\t", "TRUE", "\t", "/", "\t", "sessionid", "\t", "X">>,
      ImportPairs,
      <<"sessionid", "=", ";", " ", "ds_user_id", "=", "42">>,
      <<"csrftoken", "=", "t">>,
      <<"=", "X", ";", "sessionid">> }

\* ------------------------------------------------------- the history store
MAX_HISTORY == 200
MaxCalls == 3
MaxTicks == 1

\* what addRecord is given: a DownloadRecord without id and downloadedAt
RecordInputs ==
    { [url |-> ReelA, title |-> "Reel", uploader |-> "someone",
       thumbnail |-> "thumb.jpg", duration |-> 15] }

DownloadRecord(record, id, downloadedAt) ==
    [id |-> id, url |-> record.url, title |-> record.title,
     uploader |-> record.uploader, thumbnail |-> record.thumbnail,
     duration |-> record.duration, downloadedAt |-> downloadedAt]

\* `${Date.now()}_${Math.random().toString(36).substring(2, 8)}`
RecordId(time, random) == [at |-> time, rnd |-> random]

\* a history of n downloads made at the times 1..n, as earlier runs of the
\* app persisted it
OldHistory(n) ==
    [i \in 1..n |-> DownloadRecord(CHOOSE r \in RecordInputs : TRUE,
                                   RecordId(n + 1 - i, 0), n + 1 - i)]

StoredHistories ==
    {[type |-> "absent"], [type |-> "corrupt"]}
        \cup {Json(OldHistory(n)) : n \in {1, MAX_HISTORY - 1, MAX_HISTORY}}

\* the clock reads later than every persisted record
StartTime == MAX_HISTORY + 1

\* the clock moves on
Tick ==
    /\ now < StartTime + MaxTicks
    /\ now' = now + 1
    /\ UNCHANGED <<history, historyLoading, asyncStore, callNo, rendered, historyOps,
                   homeVars, apiVars, sessionVars>>

\* the initial load effect of HistoryProvider
HistoryLoad ==
    /\ historyLoading
    /\ history' = IF asyncStore.type = "json" THEN asyncStore.value ELSE history
    /\ historyLoading' = FALSE
    /\ rendered' = history'
    /\ UNCHANGED <<asyncStore, now, callNo, historyOps, homeVars, apiVars, sessionVars>>

\* setHistory(updated) followed by the awaited write of the store, which
\* succeeds (ok) or rejects
HistoryWrite(updated, stored, ok) ==
    /\ callNo < MaxCalls
    /\ callNo' = callNo + 1
    /\ history' = updated
    /\ rendered' = updated
    /\ asyncStore' = IF ok THEN stored ELSE asyncStore
    /\ UNCHANGED <<historyLoading, now, historyOps, homeVars, apiVars, sessionVars>>

\* addRecord without slice(0, MAX_HISTORY)
AddRecord_NoSlice(record, ok) ==
    LET newRecord == DownloadRecord(record, RecordId(now, callNo + 1), now)
        updated == <<newRecord>> \o history
    IN  HistoryWrite(updated, Json(updated), ok)

\* addRecord persisting the list it started from
AddRecord_PersistsOld(record, ok) ==
    LET newRecord == DownloadRecord(record, RecordId(now, callNo + 1), now)
        all == <<newRecord>> \o history
        updated == SubSeq(all, 1, IF Len(all) < MAX_HISTORY THEN Len(all) ELSE MAX_HISTORY)
    IN  HistoryWrite(updated, Json(history), ok)

\* addRecord(record)
AddRecord(record, ok) ==
    LET newRecord == DownloadRecord(record, RecordId(now, callNo + 1), now)
        all == <<newRecord>> \o history
        updated == SubSeq(all, 1, IF Len(all) < MAX_HISTORY THEN Len(all) ELSE MAX_HISTORY)
    IN  HistoryWrite(updated, Json(updated), ok)

\* a filter that stops at the first record with the id
WithoutId_Truncating(records, id) ==
    LET at == {i \in 1..Len(records) : records[i].id = id}
    IN  IF at = {} THEN records
        ELSE SubSeq(records, 1, (CHOOSE i \in at : \A j \in at : i <= j) - 1)

\* history.filter((r) => r.id !== id)
WithoutId(records, id) == SelectSeq(records, LAMBDA r : r.id # id)

\* removeRecord(id)
RemoveRecord(id, ok) ==
    HistoryWrite(WithoutId(history, id), Json(WithoutId(history, id)), ok)

\* clearHistory()
ClearHistory(ok) == HistoryWrite(<<>>, [type |-> "absent"], ok)

\* the ids the history screen may ask to remove: the newest record, the
\* oldest, and one that is not in the list
RemoveTargets ==
    {RecordId(0, 0)} \cup
    (IF history = <<>> THEN {} ELSE {history[1].id, history[Len(history)].id})

\* ---- the same operations call by call: setHistory queues a re-render, the
\* ---- write is awaited, and the callbacks are rebuilt only by the re-render

\* the provider re-renders: useCallback([history]) rebuilds addRecord and
\* removeRecord around the current list
HistoryRender ==
    /\ rendered # history
    /\ rendered' = history
    /\ UNCHANGED <<history, historyLoading, asyncStore, now, callNo, historyOps,
                   homeVars, apiVars, sessionVars>>

\* setHistory(updated) and the call of AsyncStorage up to its await
HistoryCall(updated, op) ==
    /\ callNo < MaxCalls
    /\ Len(historyOps) < MaxPending
    /\ callNo' = callNo + 1
    /\ history' = updated
    /\ historyOps' = Append(historyOps, op)
    /\ UNCHANGED <<historyLoading, asyncStore, now, rendered,
                   homeVars, apiVars, sessionVars>>

\* addRecord(record), as built by the last render
AddRecordCall(record) ==
    LET newRecord == DownloadRecord(record, RecordId(now, callNo + 1), now)
        all == <<newRecord>> \o rendered
        updated == SubSeq(all, 1, IF Len(all) < MAX_HISTORY THEN Len(all) ELSE MAX_HISTORY)
    IN  HistoryCall(updated, [call |-> "addRecord", id |-> newRecord.id, item |-> Json(updated)])

\* removeRecord(id), as built by the last render
RemoveRecordCall(id) ==
    LET updated == WithoutId(rendered, id)
    IN  HistoryCall(updated, [call |-> "removeRecord", id |-> id, item |-> Json(updated)])

\* clearHistory()
ClearHistoryCall ==
    HistoryCall(<<>>, [call |-> "clearHistory", id |-> RecordId(0, 0), item |-> [type |-> "absent"]])

\* the oldest pending AsyncStorage write completes
AsyncStoreSettle ==
    /\ historyOps # <<>>
    /\ asyncStore' = Head(historyOps).item
    /\ historyOps' = Tail(historyOps)
    /\ UNCHANGED <<history, historyLoading, now, callNo, rendered,
                   homeVars, apiVars, sessionVars>>

\* the ids the rendered list offers to remove, and one that is not in it
ShownTargets == {RecordId(0, 0)} \cup {rendered[i].id : i \in 1..Len(rendered)}

\* ------------------------------------------------- an API call in progress
HealthRequest == [path |-> "/", method |-> "GET", headers |-> {}, body |-> None]

RequestOf(op, u, cookies) ==
    CASE op = "fetchReelInfo" -> InfoRequest(u, cookies)
      [] op = "downloadReelBinary" -> DownloadRequest(u, cookies)
      [] op = "checkServerHealth" -> HealthRequest

ResponsesTo(op, req) ==
    CASE op = "fetchReelInfo" -> InfoResponses(req)
      [] op = "downloadReelBinary" -> DownloadResponses(req)
      [] op = "checkServerHealth" -> HealthResponses

SettleOf(op, resp) ==
    CASE op = "fetchReelInfo" -> FetchReelInfo(resp)
      [] op = "downloadReelBinary" -> DownloadReelBinary(resp)
      [] op = "checkServerHealth" -> CheckServerHealth(resp)

\* the caller invokes op(u, cookies): the request goes out
ApiInvoke(op, u, cookies) ==
    /\ apiCall' = [op |-> op, url |-> u, cookies |-> cookies]
    /\ request' = RequestOf(op, u, cookies)
    /\ response' = None
    /\ apiResult' = None

\* the transport answers (or fails, or the timer aborts) and the call settles
ApiRespond ==
    /\ apiCall # None
    /\ response = None
    /\ \E resp \in ResponsesTo(apiCall.op, request) :
          /\ response' = resp
          /\ apiResult' = SettleOf(apiCall.op, resp)
    /\ UNCHANGED <<apiCall, request, homeVars, storageVars>>

\* the awaiting caller took the result
ApiTaken ==
    /\ apiCall' = None
    /\ request' = None
    /\ response' = None
    /\ apiResult' = None

\* ------------------------------------------------------------- HomeScreen
MsgEnterUrl == "Por favor, ingresa una URL."
MsgBadUrl == "URL no valida. Ingresa un enlace de Instagram Reel."
MsgNoConnection == "No se pudo conectar al servidor. Verifica tu conexion."
MsgPermission == "Se necesitan permisos para guardar el video."

isLoading == status \in {"checking_server", "fetching_info", "downloading", "saving"}
showPreview ==
    reelInfo # Null /\ status \in {"preview", "downloading", "saving", "success"}

\* the startup effect reporting an unreachable server through the status
HealthSettle_SetsStatus(resp) ==
    LET r == CheckServerHealth(resp)
    IN  /\ healthPc = "pending"
        /\ healthPc' = "done"
        /\ serverOnline' = IF r.type # "return" THEN serverOnline
                           ELSE IF r.value THEN "true" ELSE "false"
        /\ status' = IF r.type = "return" /\ ~r.value THEN "error" ELSE status
        /\ UNCHANGED <<url, reelInfo, errorMessage, is403,
                       fetchPc, dlPc, dlCtx, dlLog, pastePc, apiVars, storageVars>>

\* the startup effect: checkServerHealth().then(setServerOnline)
HealthSettle(resp) ==
    LET r == CheckServerHealth(resp)
    IN  /\ healthPc = "pending"
        /\ healthPc' = "done"
        /\ serverOnline' = IF r.type # "return" THEN serverOnline
                           ELSE IF r.value THEN "true" ELSE "false"
        /\ UNCHANGED <<url, status, reelInfo, errorMessage, is403,
                       fetchPc, dlPc, dlCtx, dlLog, pastePc, apiVars, storageVars>>

\* TextInput.onChangeText (editable={!isLoading})
OnChangeText(text) ==
    /\ ~isLoading
    /\ text # url
    /\ url' = text
    /\ errorMessage' = ""
    /\ status' = IF status \in {"error", "preview", "success"} THEN "idle" ELSE status
    /\ reelInfo' = IF status \in {"preview", "success"} THEN Null ELSE reelInfo
    /\ UNCHANGED <<serverOnline, is403, fetchPc, dlPc, dlCtx, dlLog, pastePc,
                   healthPc, apiVars, storageVars>>

\* handlePaste up to its await (the paste button is disabled while isLoading)
HandlePaste ==
    /\ ~isLoading
    /\ pastePc = "idle"
    /\ pastePc' = "reading"
    /\ UNCHANGED <<url, status, reelInfo, errorMessage, serverOnline, is403,
                   fetchPc, dlPc, dlCtx, dlLog, healthPc, apiVars, storageVars>>

\* Clipboard.getStringAsync() resolved with clipboardContent
PasteSettle(clipboardContent) ==
    /\ pastePc = "reading"
    /\ pastePc' = "idle"
    /\ IF clipboardContent # <<>>
       THEN url' = Trim(clipboardContent) /\ errorMessage' = ""
       ELSE UNCHANGED <<url, errorMessage>>
    /\ UNCHANGED <<status, reelInfo, serverOnline, is403, fetchPc, dlPc, dlCtx,
                   dlLog, healthPc, apiVars, storageVars>>

\* Clipboard.getStringAsync() rejected: an alert, no state change
PasteFail ==
    /\ pastePc = "reading"
    /\ pastePc' = "idle"
    /\ UNCHANGED <<url, status, reelInfo, errorMessage, serverOnline, is403,
                   fetchPc, dlPc, dlCtx, dlLog, healthPc, apiVars, storageVars>>

\* handleClear and handleNewDownload without setIs403(false)
StartOver_KeepFlag ==
    /\ url' = <<>>
    /\ status' = "idle"
    /\ reelInfo' = Null
    /\ errorMessage' = ""
    /\ UNCHANGED <<serverOnline, is403, fetchPc, dlPc, dlCtx, dlLog, pastePc, healthPc,
                   apiVars, storageVars>>

\* handleClear and handleNewDownload assign the same five state variables
StartOver ==
    /\ url' = <<>>
    /\ status' = "idle"
    /\ reelInfo' = Null
    /\ errorMessage' = ""
    /\ is403' = FALSE
    /\ UNCHANGED <<serverOnline, fetchPc, dlPc, dlCtx, dlLog, pastePc, healthPc,
                   apiVars, storageVars>>

\* the clear button is rendered when url.length > 0 && !isLoading
HandleClear == Len(url) > 0 /\ ~isLoading /\ StartOver

\* the new-download button is rendered when status === "success"
HandleNewDownload == status = "success" /\ StartOver

\* handleFetchInfo without setReelInfo(null)
BeginFetch_KeepInfo ==
    /\ errorMessage' = ""
    /\ reelInfo' = reelInfo
    /\ is403' = FALSE
    /\ status' = "fetching_info"

\* handleFetchInfo without setIs403(false)
BeginFetch_KeepFlag ==
    /\ errorMessage' = ""
    /\ reelInfo' = Null
    /\ is403' = is403
    /\ status' = "fetching_info"

\* the four assignments that open a fetch

BeginFetch ==
    /\ errorMessage' = ""
    /\ reelInfo' = Null
    /\ is403' = FALSE
    /\ status' = "fetching_info"

\* handleFetchInfo, up to its await
HandleFetchInfo ==
    LET trimmedUrl == Trim(url)
    IN  IF trimmedUrl = <<>> THEN
            /\ errorMessage' = MsgEnterUrl
            /\ UNCHANGED <<url, status, reelInfo, serverOnline, is403, fetchPc, dlPc,
                           dlCtx, dlLog, pastePc, healthPc, apiVars, storageVars>>
        ELSE IF ~InstagramUrlRegexTest(trimmedUrl) THEN
            /\ errorMessage' = MsgBadUrl
            /\ UNCHANGED <<url, status, reelInfo, serverOnline, is403, fetchPc, dlPc,
                           dlCtx, dlLog, pastePc, healthPc, apiVars, storageVars>>
        ELSE
            /\ BeginFetch
            /\ fetchPc' = "awaiting"
            /\ ApiInvoke("fetchReelInfo", trimmedUrl, CookiesForApi(session.cookies))
            /\ UNCHANGED <<url, serverOnline, dlPc, dlCtx, dlLog, pastePc, healthPc,
                           storageVars>>

\* the rest of handleFetchInfo, once fetchReelInfo settled with apiResult
FetchSettle ==
    /\ fetchPc = "awaiting"
    /\ apiResult # None
    /\ fetchPc' = "idle"
    /\ ApiTaken
    /\ IF apiResult.type = "return" THEN
           /\ reelInfo' = apiResult.value
           /\ status' = "preview"
           /\ UNCHANGED <<errorMessage, is403>>
       ELSE
           /\ status' = "error"
           /\ IF apiResult.name = "ApiError"
              THEN errorMessage' = apiResult.message /\ is403' = (apiResult.status = 403)
              ELSE errorMessage' = MsgNoConnection /\ UNCHANGED is403
           /\ UNCHANGED reelInfo
    /\ UNCHANGED <<url, serverOnline, dlPc, dlCtx, dlLog, pastePc, healthPc,
                   storageVars>>

\* handleDownload, up to its first await
HandleDownload ==
    IF reelInfo = Null THEN UNCHANGED vars
    ELSE
        /\ status' = "downloading"
        /\ errorMessage' = ""
        /\ dlPc' = "perm"
        /\ dlCtx' = [reelInfo |-> reelInfo, url |-> url, cookies |-> session.cookies]
        /\ dlLog' = <<"permission">>
        /\ UNCHANGED <<url, reelInfo, serverOnline, is403, fetchPc, pastePc, healthPc,
                       apiVars, storageVars>>

\* the catch block of handleDownload
DownloadFailed(message, event) ==
    /\ status' = "error"
    /\ errorMessage' = message
    /\ dlPc' = "idle"
    /\ dlCtx' = None
    /\ dlLog' = Append(dlLog, event)
    /\ UNCHANGED <<url, reelInfo, serverOnline, is403, fetchPc, pastePc,
                   healthPc, storageVars>>

\* what MediaLibrary.requestPermissionsAsync resolves with
PermissionStatuses == {"granted", "denied", "undetermined"}

\* handleDownload without the check of the permission status
PermissionSettle_Unchecked(permStatus) ==
    /\ dlPc = "perm"
    /\ UNCHANGED apiVars
    /\ dlPc' = "native"
    /\ dlLog' = dlLog \o <<permStatus, "native">>
    /\ UNCHANGED <<url, status, reelInfo, errorMessage, serverOnline, is403,
                   fetchPc, dlCtx, pastePc, healthPc, storageVars>>

\* MediaLibrary.requestPermissionsAsync settled; on "granted" the native
\* download of reelInfo.video_url is started
PermissionSettle(permStatus) ==
    /\ dlPc = "perm"
    /\ UNCHANGED apiVars
    /\ IF permStatus # "granted"
       THEN DownloadFailed(MsgPermission, permStatus)
       ELSE /\ dlPc' = "native"
            /\ dlLog' = dlLog \o <<"granted", "native">>
            /\ UNCHANGED <<url, status, reelInfo, errorMessage, serverOnline, is403,
                           fetchPc, dlCtx, pastePc, healthPc, storageVars>>

\* handleDownload without the inner catch: a failed native download ends the
\* attempt
NativeSettle_NoFallback(ok) ==
    /\ dlPc = "native"
    /\ UNCHANGED apiVars
    /\ IF ok
       THEN /\ status' = "saving"
            /\ dlPc' = "save"
            /\ dlLog' = dlLog \o <<"native_ok", "save">>
            /\ UNCHANGED <<url, reelInfo, errorMessage, serverOnline, is403, fetchPc,
                           dlCtx, pastePc, healthPc, storageVars>>
       ELSE DownloadFailed("native failed", "native_failed")

\* ExpoFile.downloadFileAsync settled; its failure starts downloadReelBinary
NativeSettle(ok) ==
    /\ dlPc = "native"
    /\ IF ok
       THEN /\ status' = "saving"
            /\ dlPc' = "save"
            /\ dlLog' = dlLog \o <<"native_ok", "save">>
            /\ UNCHANGED <<url, reelInfo, errorMessage, serverOnline, is403, fetchPc,
                           dlCtx, pastePc, healthPc, apiVars, storageVars>>
       ELSE /\ dlPc' = "proxy"
            /\ dlLog' = dlLog \o <<"native_failed", "proxy">>
            /\ ApiInvoke("downloadReelBinary", Trim(dlCtx.url),
                         CookiesForApi(dlCtx.cookies))
            /\ UNCHANGED <<url, status, reelInfo, errorMessage, serverOnline, is403,
                           fetchPc, dlCtx, pastePc, healthPc, storageVars>>

\* downloadReelBinary settled with apiResult; its bytes are written to the
\* cache file
ProxySettle(written) ==
    /\ dlPc = "proxy"
    /\ apiResult # None
    /\ ApiTaken
    /\ IF apiResult.type = "throw" THEN DownloadFailed(apiResult.message, "proxy_failed")
       ELSE IF ~written THEN DownloadFailed("write failed", "write_failed")
       ELSE /\ status' = "saving"
            /\ dlPc' = "save"
            /\ dlLog' = dlLog \o <<"proxy_ok", "save">>
            /\ UNCHANGED <<url, reelInfo, errorMessage, serverOnline, is403,
                           fetchPc, dlCtx, pastePc, healthPc, storageVars>>

\* handleDownload with the cleanup moved to a finally block
SaveSettle_CleanupAlways(saved, cleanup) ==
    /\ dlPc = "save"
    /\ UNCHANGED apiVars
    /\ IF ~saved THEN DownloadFailed("save failed", "delete")
       ELSE /\ status' = "success"
            /\ dlPc' = "idle"
            /\ dlCtx' = None
            /\ dlLog' = dlLog \o <<"save_ok", "delete">>
            /\ UNCHANGED <<url, reelInfo, errorMessage, serverOnline, is403, fetchPc,
                           pastePc, healthPc, storageVars>>

\* handleDownload without the try/catch around the cleanup: a cleanup that
\* throws reaches the outer catch
SaveSettle_CleanupUncaught(saved, cleanup) ==
    /\ dlPc = "save"
    /\ UNCHANGED apiVars
    /\ IF ~saved THEN DownloadFailed("save failed", "save_failed")
       ELSE IF cleanup = "throws" THEN DownloadFailed("cleanup failed", "save_ok")
       ELSE /\ status' = "success"
            /\ dlPc' = "idle"
            /\ dlCtx' = None
            /\ dlLog' = dlLog \o (IF cleanup = "absent" THEN <<"save_ok">>
                                  ELSE <<"save_ok", "delete">>)
            /\ UNCHANGED <<url, reelInfo, errorMessage, serverOnline, is403, fetchPc,
                           pastePc, healthPc, storageVars>>

\* MediaLibrary.saveToLibraryAsync settled, then the cleanup of the temporary
\* file (cleanup: "deleted", "absent" when it does not exist, "throws")
SaveSettle(saved, cleanup) ==
    /\ dlPc = "save"
    /\ UNCHANGED apiVars
    /\ IF ~saved THEN DownloadFailed("save failed", "save_failed")
       ELSE /\ status' = "success"
            /\ dlPc' = "idle"
            /\ dlCtx' = None
            /\ dlLog' = dlLog \o (IF cleanup = "absent" THEN <<"save_ok">>
                                  ELSE <<"save_ok", "delete">>)
            /\ UNCHANGED <<url, reelInfo, errorMessage, serverOnline, is403, fetchPc,
                           pastePc, healthPc, storageVars>>

\* ---- what the rendered controls let the user do
\* the login button of the error card: rendered next to the retry button when
\* status === "error" && is403 && !isLoggedIn
showLogin == status = "error" /\ is403 /\ ~IsLoggedIn

\* search button: rendered when !showPreview && status !== "success",
\* disabled while isLoading
PressSearch == ~showPreview /\ status # "success" /\ ~isLoading /\ HandleFetchInfo

\* onSubmitEditing of an input that stays editable while isLoading
SubmitEditing_AlwaysEditable == HandleFetchInfo

\* onSubmitEditing of the input, editable while !isLoading
SubmitEditing == ~isLoading /\ HandleFetchInfo

\* download button: rendered when showPreview && status !== "success",
\* disabled while downloading or saving
PressDownload ==
    /\ showPreview /\ status # "success"
    /\ status \notin {"downloading", "saving"}
    /\ HandleDownload

\* handleRetry, behind the retry button rendered when status === "error"
HandleRetry ==
    /\ status = "error"
    /\ IF reelInfo # Null THEN HandleDownload ELSE HandleFetchInfo

\* ------------------------------------------------------------ the program
StoredSessions ==
    {[type |-> "absent"], [type |-> "corrupt"],
     Json([cookies |-> <<Cookie("sessionid", "X")>>, username |-> Null])}

InitHome ==
    /\ url = <<>>
    /\ status = "idle"
    /\ reelInfo = Null
    /\ errorMessage = ""
    /\ serverOnline = "null"
    /\ is403 = FALSE
    /\ fetchPc = "idle"
    /\ dlPc = "idle"
    /\ dlCtx = None
    /\ dlLog = <<>>
    /\ pastePc = "idle"
    /\ healthPc = "pending"

InitApi ==
    /\ apiCall = None
    /\ request = None
    /\ response = None
    /\ apiResult = None

InitSession ==
    /\ session = EmptySession
    /\ sessionLoading = TRUE
    /\ secureStore \in StoredSessions
    /\ storeOps = <<>>
    /\ storeSettled = "none"
    /\ alert = None

\* a first run of the app: no history persisted
InitHistory ==
    /\ history = <<>>
    /\ historyLoading = TRUE
    /\ asyncStore = [type |-> "absent"]
    /\ now = StartTime
    /\ callNo = 0
    /\ rendered = <<>>
    /\ historyOps = <<>>

Init == InitHome /\ InitApi /\ InitSession /\ InitHistory

\* The orchestrator with the session store beside it.  The startup health
\* check shares no state with these actions but serverOnline, which none of
\* them reads or writes: it runs under SpecApi.
Next ==
    \/ \E text \in Texts : OnChangeText(text)
    \/ HandlePaste
    \/ \E text \in Texts : PasteSettle(text)
    \/ PasteFail
    \/ HandleClear
    \/ HandleNewDownload
    \/ PressSearch
    \/ SubmitEditing
    \/ ApiRespond
    \/ FetchSettle
    \/ PressDownload
    \/ HandleRetry
    \/ \E p \in PermissionStatuses : PermissionSettle(p)
    \/ \E ok \in BOOLEAN : NativeSettle(ok)
    \/ \E w \in BOOLEAN : ProxySettle(w)
    \/ \E saved \in BOOLEAN, c \in {"deleted", "absent", "throws"} : SaveSettle(saved, c)
    \/ SessionLoad
    \/ \E c \in {l \in CookieLists : HasSessionCookie(l)} : SaveCookies(c, DsUserOf(c))
    \/ ClearSession

Spec == Init /\ [][Next]_vars

\* The API client alone: any operation called with any arguments, against
\* every answer of the transport; and the startup health check of HomeScreen.
ApiCallAny ==
    /\ apiCall = None
    /\ \E op \in {"fetchReelInfo", "downloadReelBinary", "checkServerHealth"},
          u \in {ReelA, ReelB}, c \in CookieLists :
            ApiInvoke(op, u, CookiesForApi(c))
    /\ UNCHANGED <<homeVars, storageVars>>

ApiRelease ==
    /\ apiResult # None
    /\ ApiTaken
    /\ UNCHANGED <<homeVars, storageVars>>

NextApi ==
    \/ ApiCallAny
    \/ ApiRespond
    \/ ApiRelease
    \/ \E resp \in HealthResponses : HealthSettle(resp)

SpecApi == Init /\ [][NextApi]_vars

\* The session store and the manual import of the session screen: the store
\* called with any cookie list once the provider has loaded, every write
\* succeeding or failing, and the app restarted at any moment.
NextSession ==
    \/ SessionLoad
    \/ /\ ~sessionLoading
       /\ \E c \in CookieLists, u \in {Undefined, Str("bob")} :
             SaveCookiesCall(c, u, "other")
    \/ ~sessionLoading /\ ClearSessionCall
    \/ \E ok \in BOOLEAN : SecureStoreSettle(ok)
    \/ ~sessionLoading /\ \E text \in ManualTexts : HandleManualSave(text)
    \/ Restart

SpecSession == Init /\ [][NextSession]_vars

\* The history store: the provider's load, its three mutating calls with
\* their write succeeding or failing, the clock, and the app restarted.
NextHistory ==
    \/ HistoryLoad
    \/ Tick
    \/ \E r \in RecordInputs, ok \in BOOLEAN : AddRecord(r, ok)
    \/ \E id \in RemoveTargets, ok \in BOOLEAN : RemoveRecord(id, ok)
    \/ \E ok \in BOOLEAN : ClearHistory(ok)
    \/ Restart

\* a run of the app over what earlier runs persisted as history
InitStoredHistory ==
    /\ InitHome /\ InitApi /\ InitSession
    /\ secureStore = [type |-> "absent"]
    /\ history = <<>>
    /\ historyLoading = TRUE
    /\ asyncStore \in StoredHistories
    /\ now = StartTime
    /\ callNo = 0
    /\ rendered = <<>>
    /\ historyOps = <<>>

SpecHistory == InitStoredHistory /\ [][NextHistory]_vars

\* ---- the history store call by call, every write succeeding, over short
\* ---- persisted lists
ShortHistories == {[type |-> "absent"]} \cup {Json(OldHistory(n)) : n \in 1..2}

InitHistoryCalls ==
    /\ InitHome /\ InitApi /\ InitSession
    /\ secureStore = [type |-> "absent"]
    /\ history = <<>>
    /\ historyLoading = TRUE
    /\ asyncStore \in ShortHistories
    /\ now = StartTime
    /\ callNo = 0
    /\ rendered = <<>>
    /\ historyOps = <<>>

NextHistoryCalls ==
    \/ HistoryLoad
    \/ HistoryRender
    \/ Tick
    \/ \E r \in RecordInputs : AddRecordCall(r)
    \/ \E id \in ShownTargets : RemoveRecordCall(id)
    \/ ClearHistoryCall
    \/ AsyncStoreSettle
    \/ Restart

SpecHistoryCalls == InitHistoryCalls /\ [][NextHistoryCalls]_vars

\* ---- HomeScreen with the health check of its mount effect
NextHome ==
    \/ Next
    \/ \E resp \in HealthResponses : HealthSettle(resp)

SpecHome == Init /\ [][NextHome]_vars

\* ---- HomeScreen with the timers of fetchWithTimeout firing

\* fetch resolves with the head of the response, finally() clears the timer,
\* and the body read by response.json() / response.blob() does not complete
ApiStall ==
    /\ apiCall # None
    /\ response = None
    /\ apiCall.op \in {"fetchReelInfo", "downloadReelBinary"}
    /\ response' = [kind |-> "http", status |-> 200, body |-> [type |-> "pending"]]
    /\ UNCHANGED <<apiCall, request, apiResult, homeVars, storageVars>>

NextTimers == Next \/ ApiStall

\* a call that has not resolved is settled by its response or by the abort of
\* its timer, and a settled call resumes the handler that awaits it
SpecTimers ==
    /\ Init
    /\ [][NextTimers]_vars
    /\ WF_vars(ApiRespond)
    /\ WF_vars(FetchSettle)
    /\ WF_vars(\E w \in BOOLEAN : ProxySettle(w))

\* ================================================================= claims
ValidInput(t) == Trim(t) # <<>> /\ InstagramUrlRegexTest(Trim(t))

\* a step of handleFetchInfo as search, keyboard submit or retry start it
FetchTriggered ==
    PressSearch \/ SubmitEditing \/ (reelInfo = Null /\ HandleRetry)

\* C1: whenever the fetch action is triggered on an input that is empty after
\* trimming or does not match the pattern, fetchReelInfo is not invoked and
\* afterwards the status is idle with a non-empty validation message.
C1_InvalidInputEndsIdle ==
    [][(FetchTriggered /\ ~ValidInput(url))
        => (apiCall' = apiCall /\ status' = "idle" /\ errorMessage' # "")]_vars

\* C2: whenever a download attempt runs, the ReelInfo it holds was fetched for
\* the input url it started with, and the url of the proxied /download request
\* is the url that ReelInfo was fetched for.
C2_NoStaleDownload ==
    /\ dlPc # "idle" => dlCtx.reelInfo.src = Trim(dlCtx.url)
    /\ dlPc = "proxy" /\ request # None => request.body.url = dlCtx.reelInfo.src

\* C3: an edit of the input in status preview, success or error leaves status
\* idle and no ReelInfo held.
C3_EditDiscardsReelInfo ==
    [][((\E text \in Texts : OnChangeText(text))
          /\ status \in {"preview", "success", "error"})
        => (status' = "idle" /\ reelInfo' = Null)]_vars

\* the awaited fetchReelInfo settled and handleFetchInfo ran to its end
FetchSettled == fetchPc = "awaiting" /\ fetchPc' = "idle"

\* C4: while status is fetching_info no ReelInfo is held; a fetch that
\* succeeds leaves status preview holding exactly the value that fetch
\* returned, which was served for the url shown trimmed at the time of the
\* call; and the preview keeps that value.
C4_PreviewHoldsReturnedInfo ==
    /\ [](status = "fetching_info" => reelInfo = Null)
    /\ [][(FetchSettled /\ apiResult.type = "return")
            => (status' = "preview" /\ reelInfo' = apiResult.value
                /\ apiResult.value.src = apiCall.url)]_vars
    /\ [][(status = "preview" /\ status' = "preview") => reelInfo' = reelInfo]_vars

\* a preview of a later fetch: a download was attempted on an earlier one
C4_Witness ==
    /\ status = "preview"
    /\ url = ReelB
    /\ reelInfo = ReelInfoOf(ReelB, 2)
    /\ dlLog # <<>>

\* the cookie data a request carries, in its body or not at all
CookieDataOf(req) ==
    IF "cookies" \in DOMAIN req.body THEN req.body.cookies ELSE Undefined

\* C5: every /info and /download request carries the exported cookie string
\* the orchestrator passed (the session's export when it holds a cookie), and
\* carries none when the export is absent.
C5_RequestsCarryCookies ==
    apiCall # None => CookieDataOf(request) = apiCall.cookies

\* C6: a fetch that fails leaves status error with the failure's message, and
\* is403 true exactly when the failure is an ApiError of status 403; a fetch
\* that succeeds leaves is403 false.
C6_Is403IffStatus403 ==
    /\ [][(FetchSettled /\ apiResult.type = "throw")
            => /\ status' = "error"
               /\ errorMessage' = (IF apiResult.name = "ApiError"
                                   THEN apiResult.message ELSE MsgNoConnection)
               /\ is403' = (apiResult.name = "ApiError" /\ apiResult.status = 403)]_vars
    /\ [][(FetchSettled /\ apiResult.type = "return") => is403' = FALSE]_vars

C6_Witness ==
    /\ status = "error"
    /\ is403
    /\ errorMessage = "Este Reel es privado o requiere inicio de sesion."
    /\ reelInfo = Null

IsDataCall == apiCall # None /\ apiCall.op \in {"fetchReelInfo", "downloadReelBinary"}

\* C7: fetchReelInfo and downloadReelBinary classify a failure as follows: no
\* response (network failure, timeout) gives status 0 and the unreachable
\* message; 422, 403, 404 and 500 give that status and the message of the
\* category; any other non-2xx gives that status and the detail the server
\* sent, or the generic fallback when the body is not JSON.
C7_ErrorClassification ==
    (IsDataCall /\ response # None) =>
        /\ response.kind \in {"netfail", "timeout"} =>
              /\ apiResult.type = "throw" /\ apiResult.name = "ApiError"
              /\ apiResult.status = 0
              /\ apiResult.message = "No se pudo conectar al servidor. Verifica que este encendido y en la misma red."
        /\ (response.kind = "http" /\ (response.status < 200 \/ response.status > 299)) =>
              /\ apiResult.type = "throw" /\ apiResult.name = "ApiError"
              /\ apiResult.status = response.status
              /\ apiResult.message =
                   CASE response.status = 422 ->
                          "URL no valida. Asegurate de que sea un enlace de Instagram Reel."
                     [] response.status = 403 ->
                          "Este Reel es privado o requiere inicio de sesion."
                     [] response.status = 404 ->
                          "Reel no encontrado. Verifica el enlace e intenta de nuevo."
                     [] response.status = 500 ->
                          "Error en el servidor. Intenta de nuevo mas tarde."
                     [] OTHER ->
                          IF response.body.type = "json" THEN response.body.value.detail
                          ELSE "Error desconocido."

C7_Witness ==
    /\ IsDataCall /\ apiCall.op = "downloadReelBinary"
    /\ response # None /\ response.kind = "http" /\ response.status = 503
    /\ apiResult.type = "throw" /\ apiResult.message = "Rate limit exceeded."

\* C8: every failure of fetchReelInfo and downloadReelBinary is an ApiError
\* that carries a numeric status.
C8_EveryFailureIsApiError ==
    (IsDataCall /\ apiResult # None /\ apiResult.type = "throw") =>
        /\ apiResult.name = "ApiError"
        /\ "status" \in DOMAIN apiResult
        /\ apiResult.status \in Nat

\* C9: checkServerHealth always returns, never throws; it returns true exactly
\* when the response is HTTP 2xx with a JSON body whose status is "ok".
C9_HealthNeverThrows ==
    (apiCall # None /\ apiCall.op = "checkServerHealth" /\ response # None) =>
        /\ apiResult.type = "return"
        /\ apiResult.value =
             (/\ response.kind = "http"
              /\ response.status \in 200..299
              /\ response.body.type = "json"
              /\ response.body.value # Null
              /\ response.body.value.status = "ok")

C9_Witness ==
    /\ apiCall # None /\ apiCall.op = "checkServerHealth"
    /\ response # None /\ response.kind = "http" /\ response.status = 204
    /\ apiResult = Return(TRUE)

\* positions of an event in the log of the running (or last) download attempt
At(e) == {i \in 1..Len(dlLog) : dlLog[i] = e}
Before(es, i) == \E j \in 1..(i - 1) : dlLog[j] \in es

\* C10: in every download attempt the permission request comes before any
\* transfer, the proxied download only after the native one failed, the
\* gallery save only after a transfer succeeded, and the deletion of the
\* temporary file only after the gallery save.
C10_DownloadOrder ==
    /\ \A i \in At("native") \cup At("proxy") : Before({"permission"}, i)
    /\ \A i \in At("proxy") : Before({"native"}, i) /\ Before({"native_failed"}, i)
    /\ \A i \in At("save") : Before({"native_ok", "proxy_ok"}, i)
    /\ \A i \in At("delete") : Before({"save"}, i) /\ Before({"save_ok"}, i)
    /\ dlPc \in {"native", "proxy", "save"} => At("permission") # {}
    /\ dlPc = "proxy" => At("native_failed") # {}

C10_Witness ==
    /\ status = "success"
    /\ dlLog = <<"permission", "granted", "native", "native_failed", "proxy",
                 "proxy_ok", "save", "save_ok", "delete">>

\* the last event of the log of the running (or last) download attempt
LastEvent == IF dlLog = <<>> THEN "" ELSE dlLog[Len(dlLog)]

\* C11: when the media-library permission is not granted the attempt ends at
\* once in status error with the permission message: no native download, no
\* downloadReelBinary call and no gallery save follow, and nothing of the
\* attempt is left running that could ask again.
C11_PermissionRefused ==
    /\ [](\A i \in At("denied") \cup At("undetermined") :
             /\ i = Len(dlLog)
             /\ dlLog = <<"permission", dlLog[i]>>
             /\ dlPc = "idle")
    /\ [][(dlPc = "perm" /\ dlPc' = "idle") =>
             /\ status' = "error"
             /\ errorMessage' = MsgPermission
             /\ LastEvent' \in {"denied", "undetermined"}
             /\ <<apiCall, request>>' = <<apiCall, request>>]_vars

C11_Witness ==
    /\ status = "error"
    /\ errorMessage = MsgPermission
    /\ dlLog = <<"permission", "denied">>
    /\ apiCall = None

\* C12: once the transfer has started, a successful native download goes on
\* to saving without any downloadReelBinary call; a failed one is followed by
\* exactly one downloadReelBinary call, whose success goes on to saving; and
\* the attempt ends in error without having entered saving exactly when the
\* native download failed and the fallback (the call or the writing of its
\* bytes) failed too.
C12_TwoStrategyFallback ==
    /\ [](/\ At("native_ok") # {} => (At("proxy") = {} /\ At("save") # {})
          /\ At("native_failed") # {} => Cardinality(At("proxy")) = 1
          /\ At("proxy_ok") # {} => At("save") # {}
          /\ dlPc = "proxy" => (apiCall # None /\ apiCall.op = "downloadReelBinary")
          /\ (status = "saving") <=> (dlPc = "save")
          /\ (dlPc = "idle" /\ At("native") # {}) =>
                ((At("save") = {}) <=>
                   (/\ At("native_failed") # {}
                    /\ At("proxy_failed") \cup At("write_failed") # {})))
    /\ [][(dlPc \in {"native", "proxy"} /\ dlPc' = "idle") => status' = "error"]_vars

C12_Witness ==
    /\ status = "error"
    /\ dlLog = <<"permission", "granted", "native", "native_failed", "proxy",
                 "proxy_failed">>

\* C13: a retry from the error state starts a fetch (status fetching_info)
\* when no ReelInfo is held and starts a download (status downloading,
\* without any fetchReelInfo call) when one is held; a fetch that fails
\* leaves no ReelInfo and a download that fails leaves one.
C13_RetryResumes ==
    /\ [][HandleRetry =>
             IF reelInfo = Null
             THEN status' = "fetching_info" /\ fetchPc' = "awaiting"
             ELSE /\ status' = "downloading" /\ dlPc' = "perm"
                  /\ fetchPc' = "idle" /\ apiCall' = apiCall]_vars
    /\ [][(FetchSettled /\ status' = "error") => reelInfo' = Null]_vars
    /\ [][(dlPc # "idle" /\ dlPc' = "idle" /\ status' = "error") =>
             reelInfo' # Null]_vars

\* C14: handleClear and handleNewDownload leave status idle, no ReelInfo, an
\* empty error message, the 403 flag off and the input empty, whatever the
\* state they are invoked in.
C14_StartOverResets ==
    [][(HandleClear \/ HandleNewDownload) =>
          /\ status' = "idle"
          /\ reelInfo' = Null
          /\ errorMessage' = ""
          /\ is403' = FALSE
          /\ url' = <<>>]_vars

C14_Witness ==
    /\ status = "idle" /\ url = <<>> /\ reelInfo = Null
    /\ errorMessage = "" /\ ~is403
    /\ LastEvent \in {"save_ok", "delete"}

\* C15: at most one fetch or download sequence is in flight, and while the
\* status is fetching_info, downloading or saving none of search, submit,
\* download, retry, clear and new download can be performed.
C15_OneSequenceInFlight ==
    /\ (fetchPc = "awaiting") <=> (status = "fetching_info")
    /\ (dlPc # "idle") <=> (status \in {"downloading", "saving"})
    /\ apiCall # None =>
          \/ fetchPc = "awaiting" /\ apiCall.op = "fetchReelInfo"
          \/ dlPc = "proxy" /\ apiCall.op = "downloadReelBinary"
    /\ isLoading =>
          ~ENABLED (\/ PressSearch \/ SubmitEditing \/ PressDownload
                    \/ HandleRetry \/ HandleClear \/ HandleNewDownload)

C15_Witness ==
    /\ status = "fetching_info"
    /\ apiResult # None
    /\ Len(url) > 0 /\ pastePc = "idle"

\* ---- the session store
\* the pending write a step has just added by calling the store
StoreCalled == Len(storeOps') = Len(storeOps) + 1
NewCall == storeOps'[Len(storeOps')]

\* the oldest pending write settles in this step, resolved or rejected
StoreSettles(how) ==
    storeOps # <<>> /\ storeOps' = Tail(storeOps) /\ storeSettled' = how

\* whether a cookie list holds a sessionid cookie with a value
SessionCookies(cookies) ==
    {i \in DOMAIN cookies : cookies[i].name = "sessionid" /\ cookies[i].value # ""}

\* C16: in every state of the session store isLoggedIn is true exactly when
\* the cookie list in memory holds a cookie named sessionid with a non-empty
\* value; it is false once clearSession has been called and once saveCookies
\* has been called with a list whose sessionid cookies have no value.
C16_LoggedInIffSessionCookie ==
    /\ [](IsLoggedIn <=> (SessionCookies(session.cookies) # {}))
    /\ [][(StoreCalled /\ NewCall.op = "delete") => ~IsLoggedIn']_vars
    /\ [][(StoreCalled /\ NewCall.op = "set"
             /\ \A i \in DOMAIN NewCall.cookies :
                   NewCall.cookies[i].name = "sessionid" => NewCall.cookies[i].value = "")
          => ~IsLoggedIn']_vars

C16_Witness ==
    /\ session.cookies = <<Cookie("sessionid", "")>>
    /\ ~IsLoggedIn
    /\ storeOps = <<>> /\ storeSettled = "resolved"

\* the session a save of cookies c with username u is to leave
ExpectedSession(c, u) ==
    LET ds == {i \in DOMAIN c : c[i].name = "ds_user_id"}
    IN  [cookies |-> c,
         username |-> IF u \notin {Undefined, Null} THEN u
                      ELSE IF ds = {} THEN Null
                      ELSE Str(c[CHOOSE i \in ds : \A j \in ds : i <= j].value)]

\* what a load of the persisted record yields
PersistedSession ==
    IF secureStore.type = "json" THEN secureStore.value ELSE EmptySession

C18_FailedWriteLeavesMemory ==
    [][StoreSettles("rejected") => session' = PersistedSession']_vars

\* C19: a manual import calls saveCookies only with parsed cookies that
\* include a sessionid with a non-empty value; an import that is turned down
\* (empty text, nothing parsable, no sessionid) changes neither the session
\* in memory nor the persisted one and calls no saveCookies.
C19_ManualImportNeedsSessionId ==
    /\ [][(StoreCalled /\ NewCall.caller = "manual") =>
             /\ NewCall.op = "set"
             /\ SessionCookies(NewCall.cookies) # {}]_vars
    /\ [][(alert' # alert /\ alert' \in {AlertPasteFirst, AlertUnparsable, AlertNoSessionId})
          => UNCHANGED <<session, secureStore, storeOps>>]_vars

C19_Witness ==
    /\ alert = AlertNoSessionId
    /\ IsLoggedIn
    /\ secureStore = Json(session)
    /\ storeOps = <<>>

\* ---- the history store
NewestFirst(records) ==
    \A i \in 1..(Len(records) - 1) :
        records[i].downloadedAt >= records[i + 1].downloadedAt

Ids(records) == {records[i].id : i \in DOMAIN records}

\* a store call of this step has put a record with a new id in the list
Added ==
    /\ callNo' = callNo + 1
    /\ ~(Ids(history') \subseteq Ids(history))

\* C20: the history list, in memory and as persisted, never holds more than
\* MAX_HISTORY records and is ordered newest first; an add places the new
\* record, stamped with the current time, at the head and keeps the records
\* that were there in their order, all of them below the cap and all but the
\* oldest (the last) at the cap.
C20_HistoryCapAndOrder ==
    /\ [](Len(history) <= MAX_HISTORY /\ NewestFirst(history))
    /\ [](asyncStore.type = "json" =>
             (Len(asyncStore.value) <= MAX_HISTORY /\ NewestFirst(asyncStore.value)))
    /\ [][Added =>
             /\ Head(history').id \notin Ids(history)
             /\ Head(history').downloadedAt = now
             /\ Tail(history') = IF Len(history) = MAX_HISTORY
                                 THEN SubSeq(history, 1, MAX_HISTORY - 1)
                                 ELSE history]_vars

C20_Witness ==
    /\ Len(history) = MAX_HISTORY
    /\ history[1].downloadedAt >= StartTime
    /\ history[2].downloadedAt >= StartTime
    /\ history[MAX_HISTORY].downloadedAt = 3
    /\ asyncStore = Json(history)

\* what a load of the persisted history yields
PersistedHistory ==
    IF asyncStore.type = "json" THEN asyncStore.value ELSE <<>>

\* the initial load of a provider that has just mounted completes
HistoryLoaded == historyLoading /\ ~historyLoading' /\ history = <<>>

C22_RemoveAndClear ==
    /\ [][\A id \in RemoveTargets :
             RemoveRecord(id, TRUE) =>
                LET at == {i \in DOMAIN history : history[i].id = id}
                IN  /\ Ids(history') = Ids(history) \ {id}
                    /\ at = {} => history' = history
                    /\ Cardinality(at) = 1 =>
                          LET p == CHOOSE i \in at : TRUE
                          IN  history' = SubSeq(history, 1, p - 1)
                                           \o SubSeq(history, p + 1, Len(history))
                    /\ asyncStore' = Json(history')]_vars
    /\ [][ClearHistory(TRUE) =>
             (history' = <<>> /\ asyncStore'.type = "absent")]_vars
    /\ [][(HistoryLoaded /\ asyncStore.type = "absent") => history' = <<>>]_vars

C22_Witness ==
    /\ ~historyLoading
    /\ Len(history) = MAX_HISTORY - 2
    /\ history[1].downloadedAt = MAX_HISTORY - 2
    /\ history[Len(history)].downloadedAt = 1
    /\ asyncStore = Json(history)


\* ---- C23, C30: the history store call by call (SpecHistoryCalls)

HistoryCalled == Len(historyOps') = Len(historyOps) + 1
LastCall == historyOps'[Len(historyOps')]

\* C23: history mutations are atomic with respect to each other: an addRecord
\* keeps every record the list holds and adds the new one, a removeRecord
\* takes out the records with its id and nothing else, whether or not an
\* earlier call has been re-rendered or has finished persisting, so that no
\* update is lost
C23_NoLostUpdate ==
    [][HistoryCalled =>
         /\ (LastCall.call = "addRecord" /\ Len(history) < MAX_HISTORY)
               => Ids(history') = Ids(history) \cup {LastCall.id}
         /\ LastCall.call = "removeRecord"
               => Ids(history') = Ids(history) \ {LastCall.id}]_vars

HistoryIdle == ~historyLoading /\ historyOps = <<>>

\* C30: the initial load does not race with mutations: whenever no store
\* operation is in flight the list in memory equals the persisted one, also
\* when addRecord or removeRecord was called before the load completed
C30_LoadDoesNotRace == HistoryIdle => history = PersistedHistory


\* ---- C24, C25: what follows a started sequence (SpecTimers)

Urls == {Trim(text) : text \in Texts}
Recorded(u) == \E i \in 1..Len(history) : history[i].url = u

\* C24: whenever the download flow reaches success for a URL, the history
\* subsequently contains a record with that url
C24_SuccessIsRecorded ==
    \A u \in Urls :
        (status = "success" /\ reelInfo # Null /\ reelInfo.src = u) ~> Recorded(u)

\* C25: every in-flight sequence terminates once the timers that were started
\* have fired: no step keeps the status in a loading state forever
C25_LoadingEnds == isLoading ~> ~isLoading


\* ---- C26: the login action of the error card (Spec)

ResultTaken == apiResult # None /\ apiResult' = None
Failed403 == apiResult.type = "throw" /\ apiResult.name = "ApiError" /\ apiResult.status = 403

\* C26: when fetchReelInfo or the proxied downloadReelBinary ends the flow in
\* status error, the login action is offered exactly when the failure was an
\* HTTP 403 and no session is active
C26_LoginOfferedOn403 ==
    [][(ResultTaken /\ status' = "error") =>
         (showLogin' <=> (Failed403 /\ ~IsLoggedIn'))]_vars


\* ---- C27: the end of a download attempt (Spec)

SaveSettled == dlPc = "save" /\ dlPc' = "idle"
SavedIn(log) == \E i \in 1..Len(log) : log[i] = "save_ok"
SaveFailed == status = "error" /\ errorMessage = "save failed" /\ LastEvent = "save_failed"

\* C27: once the gallery save has succeeded the flow reaches success, whatever
\* the cleanup of the temporary file does; a gallery save that fails ends in
\* status error with the ReelInfo held, and a retry from there runs a whole
\* new attempt, starting with the permission request
C27_SaveDecidesOutcome ==
    /\ [][SaveSettled =>
            /\ status' = (IF SavedIn(dlLog') THEN "success" ELSE "error")
            /\ reelInfo' = reelInfo /\ reelInfo # Null]_vars
    /\ [](SaveFailed => dlPc = "idle" /\ reelInfo # Null)
    /\ [][(SaveFailed /\ HandleRetry) =>
            /\ status' = "downloading"
            /\ dlPc' = "perm"
            /\ dlLog' = <<"permission">>
            /\ apiCall' = apiCall]_vars

C27_Witness ==
    /\ SaveFailed
    /\ reelInfo # Null
    /\ dlLog = <<"permission", "granted", "native", "native_failed", "proxy",
                 "proxy_ok", "save", "save_failed">>


\* ---- C28: invariants of the HomeScreen state (SpecHome)

AppStatuses == {"idle", "fetching_info", "preview", "downloading", "saving", "success", "error"}
HealthSettled == healthPc = "pending" /\ healthPc' # "pending"

\* C28: a status of preview, downloading, saving or success implies that a
\* ReelInfo is held; the 403 flag implies that none is held; the status
\* checking_server is never entered; and the health check changes
\* serverOnline and nothing else of the screen's state
C28_StateInvariants ==
    /\ [](status \in {"preview", "downloading", "saving", "success"} => reelInfo # Null)
    /\ [](is403 => reelInfo = Null)
    /\ [](status \in AppStatuses)
    /\ [][HealthSettled =>
            /\ serverOnline' \in {"true", "false"}
            /\ UNCHANGED <<url, status, reelInfo, errorMessage, is403,
                           fetchPc, dlPc, dlCtx, dlLog, pastePc>>]_vars
    /\ [][serverOnline' # serverOnline => HealthSettled]_vars

C28_Witness ==
    /\ status = "success"
    /\ reelInfo # Null
    /\ serverOnline = "false"
    /\ ~is403


\* ---- C29: the input while a sequence is in flight (Spec)

\* C29: the input url does not change while a fetch or a download is in
\* flight, also when a paste begun earlier completes, and a ReelInfo that
\* arrives was fetched for the url shown
C29_InputStableInFlight ==
    /\ [][isLoading => url' = url]_vars
    /\ [][(FetchSettled /\ apiResult.type = "return") => reelInfo'.src = Trim(url')]_vars

====
